---- MODULE Spec2Model ----
(***************************************************************************)
(* Model of src/main.py (safe_osint): the candidate generator              *)
(* (generate_usernames, generate_emails), the two probers                  *)
(* (check_profile_exists, hibp_check_email) and the sequential driver      *)
(* find_public_accounts.                                                   *)
(*                                                                         *)
(* Names, usernames, emails and URLs are sequences of code points (Python  *)
(* ord()), so that sorted() is the code-point order Python uses.  Values   *)
(* that may be None are tagged with their Python type (None, True, False,  *)
(* Num(n), Str(s)), so that None differs from every str, bool and int.     *)
(***************************************************************************)
EXTENDS Integers, Sequences, FiniteSets, Bags, TLC

VARIABLES
  full_name,      \* argument of the run
  domains_arg,    \* argument domains_for_emails (None or a list of strings)
  max_results,    \* argument max_results
  HIBP_API_KEY,   \* module configuration value (line 26)
  net,            \* the network: cyclic schedule of responses to requests
  pc,             \* position of the run
  usernames,      \* local usernames of find_public_accounts
  emails,         \* local emails
  found,          \* local found: [usernames |-> list, emails |-> list]
  checked,        \* local checked
  ui, si, ei,     \* loop positions: username, site, email (1-based)
  exists, info,   \* result of the last check_profile_exists call
  hibp,           \* result of the last hibp_check_email call
  uRes,           \* result of the generate_usernames call (generator specification)
  eRes,           \* result of the generate_emails call (generator specification)
  requests,       \* history: number of HTTP requests sent so far
  profileCalls,   \* history: bag of <<site, username, url>> probed
  lastResp,       \* history: response the last prober call received
  hibpLog,        \* history: sequence of [email, result, requested] of hibp calls
  hibpRequests,   \* history: number of HTTP requests sent by hibp_check_email
  sleepsSince,    \* history: sleeps since the last prober call
  capped          \* history: the run returned at the max_results check

vars == <<full_name, domains_arg, max_results, HIBP_API_KEY, net, pc, usernames,
          emails, found, checked, ui, si, ei, exists, info, hibp, uRes,
          eRes, requests, profileCalls, lastResp, hibpLog, hibpRequests, sleepsSince,
          capped>>

\* Python values of the types NoneType, bool, int and str
None   == [none |-> TRUE]
Bool(b) == [bool |-> b]
True   == Bool(TRUE)
False  == Bool(FALSE)
Num(n) == [int |-> n]
Str(s) == [str |-> s]

-----------------------------------------------------------------------------
(* Python string primitives used by the source *)

\* the characters that str.strip() removes and the regex \s matches
IsSpace(c) == c \in {9, 10, 11, 12, 13, 28, 29, 30, 31, 32, 133, 160, 5760}
                     \cup (8192..8202) \cup {8232, 8233, 8239, 8287, 12288}

\* ''.join(l)
RECURSIVE join(_)
join(l) == IF l = <<>> THEN <<>> ELSE Head(l) \o join(Tail(l))

\* c lies in one of the ranges first, last, first, last, ...
InRanges(c, ranges) == \E k \in 1..(Len(ranges) \div 2) : ranges[2 * k - 1] <= c /\ c <= ranges[2 * k]

\* The lowercase mapping of str.lower() above ASCII (Unicode 14.0.0, the
\* table of CPython 3.11), four numbers per entry: first, last, step, delta
\* map the code points first, first+step, ..., last to themselves plus delta.
LowerRuns == <<
  192, 214, 1, 32, 216, 222, 1, 32, 256, 302, 2, 1, 306, 310, 2, 1,
  313, 327, 2, 1, 330, 374, 2, 1, 376, 376, 1, -121, 377, 381, 2, 1,
  385, 385, 1, 210, 386, 388, 2, 1, 390, 390, 1, 206, 391, 391, 1, 1,
  393, 394, 1, 205, 395, 395, 1, 1, 398, 398, 1, 79, 399, 399, 1, 202,
  400, 400, 1, 203, 401, 401, 1, 1, 403, 403, 1, 205, 404, 404, 1, 207,
  406, 406, 1, 211, 407, 407, 1, 209, 408, 408, 1, 1, 412, 412, 1, 211,
  413, 413, 1, 213, 415, 415, 1, 214, 416, 420, 2, 1, 422, 422, 1, 218,
  423, 423, 1, 1, 425, 425, 1, 218, 428, 428, 1, 1, 430, 430, 1, 218,
  431, 431, 1, 1, 433, 434, 1, 217, 435, 437, 2, 1, 439, 439, 1, 219,
  440, 440, 1, 1, 444, 444, 1, 1, 452, 452, 1, 2, 453, 453, 1, 1,
  455, 455, 1, 2, 456, 456, 1, 1, 458, 458, 1, 2, 459, 475, 2, 1,
  478, 494, 2, 1, 497, 497, 1, 2, 498, 500, 2, 1, 502, 502, 1, -97,
  503, 503, 1, -56, 504, 542, 2, 1, 544, 544, 1, -130, 546, 562, 2, 1,
  570, 570, 1, 10795, 571, 571, 1, 1, 573, 573, 1, -163, 574, 574, 1, 10792,
  577, 577, 1, 1, 579, 579, 1, -195, 580, 580, 1, 69, 581, 581, 1, 71,
  582, 590, 2, 1, 880, 882, 2, 1, 886, 886, 1, 1, 895, 895, 1, 116,
  902, 902, 1, 38, 904, 906, 1, 37, 908, 908, 1, 64, 910, 911, 1, 63,
  913, 929, 1, 32, 931, 939, 1, 32, 975, 975, 1, 8, 984, 1006, 2, 1,
  1012, 1012, 1, -60, 1015, 1015, 1, 1, 1017, 1017, 1, -7, 1018, 1018, 1, 1,
  1021, 1023, 1, -130, 1024, 1039, 1, 80, 1040, 1071, 1, 32, 1120, 1152, 2, 1,
  1162, 1214, 2, 1, 1216, 1216, 1, 15, 1217, 1229, 2, 1, 1232, 1326, 2, 1,
  1329, 1366, 1, 48, 4256, 4293, 1, 7264, 4295, 4295, 1, 7264, 4301, 4301, 1, 7264,
  5024, 5103, 1, 38864, 5104, 5109, 1, 8, 7312, 7354, 1, -3008, 7357, 7359, 1, -3008,
  7680, 7828, 2, 1, 7838, 7838, 1, -7615, 7840, 7934, 2, 1, 7944, 7951, 1, -8,
  7960, 7965, 1, -8, 7976, 7983, 1, -8, 7992, 7999, 1, -8, 8008, 8013, 1, -8,
  8025, 8031, 2, -8, 8040, 8047, 1, -8, 8072, 8079, 1, -8, 8088, 8095, 1, -8,
  8104, 8111, 1, -8, 8120, 8121, 1, -8, 8122, 8123, 1, -74, 8124, 8124, 1, -9,
  8136, 8139, 1, -86, 8140, 8140, 1, -9, 8152, 8153, 1, -8, 8154, 8155, 1, -100,
  8168, 8169, 1, -8, 8170, 8171, 1, -112, 8172, 8172, 1, -7, 8184, 8185, 1, -128,
  8186, 8187, 1, -126, 8188, 8188, 1, -9, 8486, 8486, 1, -7517, 8490, 8490, 1, -8383,
  8491, 8491, 1, -8262, 8498, 8498, 1, 28, 8544, 8559, 1, 16, 8579, 8579, 1, 1,
  9398, 9423, 1, 26, 11264, 11311, 1, 48, 11360, 11360, 1, 1, 11362, 11362, 1, -10743,
  11363, 11363, 1, -3814, 11364, 11364, 1, -10727, 11367, 11371, 2, 1, 11373, 11373, 1, -10780,
  11374, 11374, 1, -10749, 11375, 11375, 1, -10783, 11376, 11376, 1, -10782, 11378, 11378, 1, 1,
  11381, 11381, 1, 1, 11390, 11391, 1, -10815, 11392, 11490, 2, 1, 11499, 11501, 2, 1,
  11506, 11506, 1, 1, 42560, 42604, 2, 1, 42624, 42650, 2, 1, 42786, 42798, 2, 1,
  42802, 42862, 2, 1, 42873, 42875, 2, 1, 42877, 42877, 1, -35332, 42878, 42886, 2, 1,
  42891, 42891, 1, 1, 42893, 42893, 1, -42280, 42896, 42898, 2, 1, 42902, 42920, 2, 1,
  42922, 42922, 1, -42308, 42923, 42923, 1, -42319, 42924, 42924, 1, -42315, 42925, 42925, 1, -42305,
  42926, 42926, 1, -42308, 42928, 42928, 1, -42258, 42929, 42929, 1, -42282, 42930, 42930, 1, -42261,
  42931, 42931, 1, 928, 42932, 42946, 2, 1, 42948, 42948, 1, -48, 42949, 42949, 1, -42307,
  42950, 42950, 1, -35384, 42951, 42953, 2, 1, 42960, 42960, 1, 1, 42966, 42968, 2, 1,
  42997, 42997, 1, 1, 65313, 65338, 1, 32, 66560, 66599, 1, 40, 66736, 66771, 1, 40,
  66928, 66938, 1, 39, 66940, 66954, 1, 39, 66956, 66962, 1, 39, 66964, 66965, 1, 39,
  68736, 68786, 1, 64, 71840, 71871, 1, 32, 93760, 93791, 1, 32, 125184, 125217, 1, 34 >>

\* The characters with the Unicode property Case_Ignorable: first, last of
\* every range of them
CaseIgnorable == <<
  39, 39, 46, 46, 58, 58, 94, 94, 96, 96, 168, 168, 173, 173, 175, 175,
  180, 180, 183, 184, 688, 879, 884, 885, 890, 890, 900, 901, 903, 903, 1155, 1161,
  1369, 1369, 1375, 1375, 1425, 1469, 1471, 1471, 1473, 1474, 1476, 1477, 1479, 1479, 1524, 1524,
  1536, 1541, 1552, 1562, 1564, 1564, 1600, 1600, 1611, 1631, 1648, 1648, 1750, 1757, 1759, 1768,
  1770, 1773, 1807, 1807, 1809, 1809, 1840, 1866, 1958, 1968, 2027, 2037, 2042, 2042, 2045, 2045,
  2070, 2093, 2137, 2139, 2184, 2184, 2192, 2193, 2200, 2207, 2249, 2306, 2362, 2362, 2364, 2364,
  2369, 2376, 2381, 2381, 2385, 2391, 2402, 2403, 2417, 2417, 2433, 2433, 2492, 2492, 2497, 2500,
  2509, 2509, 2530, 2531, 2558, 2558, 2561, 2562, 2620, 2620, 2625, 2626, 2631, 2632, 2635, 2637,
  2641, 2641, 2672, 2673, 2677, 2677, 2689, 2690, 2748, 2748, 2753, 2757, 2759, 2760, 2765, 2765,
  2786, 2787, 2810, 2815, 2817, 2817, 2876, 2876, 2879, 2879, 2881, 2884, 2893, 2893, 2901, 2902,
  2914, 2915, 2946, 2946, 3008, 3008, 3021, 3021, 3072, 3072, 3076, 3076, 3132, 3132, 3134, 3136,
  3142, 3144, 3146, 3149, 3157, 3158, 3170, 3171, 3201, 3201, 3260, 3260, 3263, 3263, 3270, 3270,
  3276, 3277, 3298, 3299, 3328, 3329, 3387, 3388, 3393, 3396, 3405, 3405, 3426, 3427, 3457, 3457,
  3530, 3530, 3538, 3540, 3542, 3542, 3633, 3633, 3636, 3642, 3654, 3662, 3761, 3761, 3764, 3772,
  3782, 3782, 3784, 3789, 3864, 3865, 3893, 3893, 3895, 3895, 3897, 3897, 3953, 3966, 3968, 3972,
  3974, 3975, 3981, 3991, 3993, 4028, 4038, 4038, 4141, 4144, 4146, 4151, 4153, 4154, 4157, 4158,
  4184, 4185, 4190, 4192, 4209, 4212, 4226, 4226, 4229, 4230, 4237, 4237, 4253, 4253, 4348, 4348,
  4957, 4959, 5906, 5908, 5938, 5939, 5970, 5971, 6002, 6003, 6068, 6069, 6071, 6077, 6086, 6086,
  6089, 6099, 6103, 6103, 6109, 6109, 6155, 6159, 6211, 6211, 6277, 6278, 6313, 6313, 6432, 6434,
  6439, 6440, 6450, 6450, 6457, 6459, 6679, 6680, 6683, 6683, 6742, 6742, 6744, 6750, 6752, 6752,
  6754, 6754, 6757, 6764, 6771, 6780, 6783, 6783, 6823, 6823, 6832, 6862, 6912, 6915, 6964, 6964,
  6966, 6970, 6972, 6972, 6978, 6978, 7019, 7027, 7040, 7041, 7074, 7077, 7080, 7081, 7083, 7085,
  7142, 7142, 7144, 7145, 7149, 7149, 7151, 7153, 7212, 7219, 7222, 7223, 7288, 7293, 7376, 7378,
  7380, 7392, 7394, 7400, 7405, 7405, 7412, 7412, 7416, 7417, 7468, 7530, 7544, 7544, 7579, 7679,
  8125, 8125, 8127, 8129, 8141, 8143, 8157, 8159, 8173, 8175, 8189, 8190, 8203, 8207, 8216, 8217,
  8228, 8228, 8231, 8231, 8234, 8238, 8288, 8292, 8294, 8303, 8305, 8305, 8319, 8319, 8336, 8348,
  8400, 8432, 11388, 11389, 11503, 11505, 11631, 11631, 11647, 11647, 11744, 11775, 11823, 11823, 12293, 12293,
  12330, 12333, 12337, 12341, 12347, 12347, 12441, 12446, 12540, 12542, 40981, 40981, 42232, 42237, 42508, 42508,
  42607, 42610, 42612, 42621, 42623, 42623, 42652, 42655, 42736, 42737, 42752, 42785, 42864, 42864, 42888, 42890,
  42994, 42996, 43000, 43001, 43010, 43010, 43014, 43014, 43019, 43019, 43045, 43046, 43052, 43052, 43204, 43205,
  43232, 43249, 43263, 43263, 43302, 43309, 43335, 43345, 43392, 43394, 43443, 43443, 43446, 43449, 43452, 43453,
  43471, 43471, 43493, 43494, 43561, 43566, 43569, 43570, 43573, 43574, 43587, 43587, 43596, 43596, 43632, 43632,
  43644, 43644, 43696, 43696, 43698, 43700, 43703, 43704, 43710, 43711, 43713, 43713, 43741, 43741, 43756, 43757,
  43763, 43764, 43766, 43766, 43867, 43871, 43881, 43883, 44005, 44005, 44008, 44008, 44013, 44013, 64286, 64286,
  64434, 64450, 65024, 65039, 65043, 65043, 65056, 65071, 65106, 65106, 65109, 65109, 65279, 65279, 65287, 65287,
  65294, 65294, 65306, 65306, 65342, 65342, 65344, 65344, 65392, 65392, 65438, 65439, 65507, 65507, 65529, 65531,
  66045, 66045, 66272, 66272, 66422, 66426, 67456, 67461, 67463, 67504, 67506, 67514, 68097, 68099, 68101, 68102,
  68108, 68111, 68152, 68154, 68159, 68159, 68325, 68326, 68900, 68903, 69291, 69292, 69446, 69456, 69506, 69509,
  69633, 69633, 69688, 69702, 69744, 69744, 69747, 69748, 69759, 69761, 69811, 69814, 69817, 69818, 69821, 69821,
  69826, 69826, 69837, 69837, 69888, 69890, 69927, 69931, 69933, 69940, 70003, 70003, 70016, 70017, 70070, 70078,
  70089, 70092, 70095, 70095, 70191, 70193, 70196, 70196, 70198, 70199, 70206, 70206, 70367, 70367, 70371, 70378,
  70400, 70401, 70459, 70460, 70464, 70464, 70502, 70508, 70512, 70516, 70712, 70719, 70722, 70724, 70726, 70726,
  70750, 70750, 70835, 70840, 70842, 70842, 70847, 70848, 70850, 70851, 71090, 71093, 71100, 71101, 71103, 71104,
  71132, 71133, 71219, 71226, 71229, 71229, 71231, 71232, 71339, 71339, 71341, 71341, 71344, 71349, 71351, 71351,
  71453, 71455, 71458, 71461, 71463, 71467, 71727, 71735, 71737, 71738, 71995, 71996, 71998, 71998, 72003, 72003,
  72148, 72151, 72154, 72155, 72160, 72160, 72193, 72202, 72243, 72248, 72251, 72254, 72263, 72263, 72273, 72278,
  72281, 72283, 72330, 72342, 72344, 72345, 72752, 72758, 72760, 72765, 72767, 72767, 72850, 72871, 72874, 72880,
  72882, 72883, 72885, 72886, 73009, 73014, 73018, 73018, 73020, 73021, 73023, 73029, 73031, 73031, 73104, 73105,
  73109, 73109, 73111, 73111, 73459, 73460, 78896, 78904, 92912, 92916, 92976, 92982, 92992, 92995, 94031, 94031,
  94095, 94111, 94176, 94177, 94179, 94180, 110576, 110579, 110581, 110587, 110589, 110590, 113821, 113822, 113824, 113827,
  118528, 118573, 118576, 118598, 119143, 119145, 119155, 119170, 119173, 119179, 119210, 119213, 119362, 119364, 121344, 121398,
  121403, 121452, 121461, 121461, 121476, 121476, 121499, 121503, 121505, 121519, 122880, 122886, 122888, 122904, 122907, 122913,
  122915, 122916, 122918, 122922, 123184, 123197, 123566, 123566, 123628, 123631, 125136, 125142, 125252, 125259, 127995, 127999,
  917505, 917505, 917536, 917631, 917760, 917999 >>

\* The characters with the Unicode property Cased: first, last of every range
Cased == <<
  65, 90, 97, 122, 170, 170, 181, 181, 186, 186, 192, 214, 216, 246, 248, 442,
  444, 447, 452, 659, 661, 696, 704, 705, 736, 740, 837, 837, 880, 883, 886, 887,
  890, 893, 895, 895, 902, 902, 904, 906, 908, 908, 910, 929, 931, 1013, 1015, 1153,
  1162, 1327, 1329, 1366, 1376, 1416, 4256, 4293, 4295, 4295, 4301, 4301, 4304, 4346, 4349, 4351,
  5024, 5109, 5112, 5117, 7296, 7304, 7312, 7354, 7357, 7359, 7424, 7615, 7680, 7957, 7960, 7965,
  7968, 8005, 8008, 8013, 8016, 8023, 8025, 8025, 8027, 8027, 8029, 8029, 8031, 8061, 8064, 8116,
  8118, 8124, 8126, 8126, 8130, 8132, 8134, 8140, 8144, 8147, 8150, 8155, 8160, 8172, 8178, 8180,
  8182, 8188, 8305, 8305, 8319, 8319, 8336, 8348, 8450, 8450, 8455, 8455, 8458, 8467, 8469, 8469,
  8473, 8477, 8484, 8484, 8486, 8486, 8488, 8488, 8490, 8493, 8495, 8500, 8505, 8505, 8508, 8511,
  8517, 8521, 8526, 8526, 8544, 8575, 8579, 8580, 9398, 9449, 11264, 11492, 11499, 11502, 11506, 11507,
  11520, 11557, 11559, 11559, 11565, 11565, 42560, 42605, 42624, 42653, 42786, 42887, 42891, 42894, 42896, 42954,
  42960, 42961, 42963, 42963, 42965, 42969, 42997, 42998, 43000, 43002, 43824, 43866, 43868, 43880, 43888, 43967,
  64256, 64262, 64275, 64279, 65313, 65338, 65345, 65370, 66560, 66639, 66736, 66771, 66776, 66811, 66928, 66938,
  66940, 66954, 66956, 66962, 66964, 66965, 66967, 66977, 66979, 66993, 66995, 67001, 67003, 67004, 67456, 67456,
  67459, 67461, 67463, 67504, 67506, 67514, 68736, 68786, 68800, 68850, 71840, 71903, 93760, 93823, 119808, 119892,
  119894, 119964, 119966, 119967, 119970, 119970, 119973, 119974, 119977, 119980, 119982, 119993, 119995, 119995, 119997, 120003,
  120005, 120069, 120071, 120074, 120077, 120084, 120086, 120092, 120094, 120121, 120123, 120126, 120128, 120132, 120134, 120134,
  120138, 120144, 120146, 120485, 120488, 120512, 120514, 120538, 120540, 120570, 120572, 120596, 120598, 120628, 120630, 120654,
  120656, 120686, 120688, 120712, 120714, 120744, 120746, 120770, 120772, 120779, 122624, 122633, 122635, 122654, 125184, 125251,
  127280, 127305, 127312, 127337, 127344, 127369 >>

\* the lowercase of one character out of context: one code point, two for U+0130
LowerChar(c) ==
  IF c < 128 THEN (IF c \in 65..90 THEN <<c + 32>> ELSE <<c>>)
  ELSE IF c = 304 THEN <<105, 775>>
  ELSE LET hit == {k \in 1..(Len(LowerRuns) \div 4) :
                     /\ LowerRuns[4 * k - 3] <= c /\ c <= LowerRuns[4 * k - 2]
                     /\ (c - LowerRuns[4 * k - 3]) % LowerRuns[4 * k - 1] = 0}
       IN IF hit = {} THEN <<c>>
          ELSE LET k == CHOOSE h \in hit : TRUE IN <<c + LowerRuns[4 * k]>>

\* whether the capital sigma at s[i] is final: a cased character before it
\* and none after it, case-ignorable characters skipped on both sides
FinalSigma(s, i) ==
  LET before == {j \in 1..(i - 1) : ~InRanges(s[j], CaseIgnorable)}
      after  == {j \in (i + 1)..Len(s) : ~InRanges(s[j], CaseIgnorable)}
      prev   == CHOOSE j \in before : \A m \in before : m <= j
      next   == CHOOSE j \in after : \A m \in after : j <= m
  IN /\ before # {} /\ InRanges(s[prev], Cased)
     /\ (after = {} \/ ~InRanges(s[next], Cased))

\* str.lower()
lower(s) ==
  join([i \in 1..Len(s) |->
          IF s[i] = 931 THEN (IF FinalSigma(s, i) THEN <<962>> ELSE <<963>>)
          ELSE LowerChar(s[i])])

\* str.strip()
strip(s) ==
  LET keep == {i \in 1..Len(s) : ~IsSpace(s[i])}
  IN IF keep = {} THEN <<>>
     ELSE LET lo == CHOOSE i \in keep : \A j \in keep : i <= j
              hi == CHOOSE i \in keep : \A j \in keep : j <= i
          IN SubSeq(s, lo, hi)

\* re.sub(r'[^...]', '', s): delete the characters of s outside the class keep
RECURSIVE re_sub_keep(_, _)
re_sub_keep(keep, s) ==
  IF s = <<>> THEN <<>>
  ELSE (IF Head(s) \in keep THEN <<Head(s)>> ELSE <<>>) \o re_sub_keep(keep, Tail(s))

\* re.split(r'\s+', s): the pieces of s between maximal runs of whitespace
RECURSIVE re_split_ws(_, _, _)
re_split_ws(s, i, cur) ==
  IF i > Len(s) THEN <<cur>>
  ELSE IF IsSpace(s[i])
       THEN LET j == CHOOSE k \in (i+1)..(Len(s)+1) :
                       /\ \A m \in i..(k-1) : IsSpace(s[m])
                       /\ (k = Len(s) + 1 \/ ~IsSpace(s[k]))
            IN <<cur>> \o re_split_ws(s, j, <<>>)
       ELSE re_split_ws(s, i + 1, Append(cur, s[i]))

\* a < b for Python strings (code-point lexicographic order)
StrLess(a, b) ==
  LET n == IF Len(a) < Len(b) THEN Len(a) ELSE Len(b)
      d == {i \in 1..n : a[i] # b[i]}
  IN IF d = {} THEN Len(a) < Len(b)
     ELSE LET i == CHOOSE k \in d : \A m \in d : k <= m IN a[i] < b[i]

\* A Python set of strings is a set of strings.  Python leaves open in which
\* order a set is iterated; the iterations of this program end in a set
\* (lines 70-72) or in sorted() (lines 75, 107), which take what the iteration
\* yields as a collection without order.

\* the collection a Python set yields when iterated: each element once
Yield(S) == [e \in S |-> 1]

\* sorted(iterable of strings), for the bag B of the strings the iterable
\* yields: the list that holds every string as often as B does, in ascending
\* order.  A string s stands at the positions after the strings less than s.
sorted(B) ==
  LET keys == DOMAIN B
      at   == {<<s, BagCardinality([t \in {k \in keys : StrLess(k, s)} |-> B[t]])>> : s \in keys}
  IN [i \in 1..BagCardinality(B) |->
        (CHOOSE e \in at : e[2] < i /\ i <= e[2] + B[e[1]])[1]] \o <<>>

Range(f) == {f[i] : i \in DOMAIN f}

-----------------------------------------------------------------------------
(* Candidate generator *)

\* the class a-z0-9
SlugChars == (97..122) \cup (48..57)

slugify(s) == re_sub_keep(SlugChars, lower(s))

name_parts(name) ==
  LET pieces == re_split_ws(strip(name), 1, <<>>)
  IN SelectSeq(pieces, LAMBDA p : p # <<>>)

\* s[0]: IndexError on the empty string is reported by the caller
Char0(s) == <<s[1]>>

\* str(n) for a one-digit n
Digit(n) == <<48 + n>>

Ok(v)     == [exc |-> None, value |-> v]
Raise(e)  == [exc |-> Str(e), value |-> <<>>]

\* variant of Suffixes with the range cut short, range(1, 3)
Suffixes_Short == 1..2

\* range(1, 4) of line 71
Suffixes == 1..3

\* lines 70-72: every base of list(candidates), the elements the set has
\* before the loop, adds its suffixed forms to the set
AddSuffixed(S) == S \cup {base \o Digit(n) : base \in S, n \in Suffixes}

\* the collection the generator expression of line 75 yields: slugify(u) once
\* for every element u of the set
Slugified(S) ==
  LET yielded == {<<slugify(u), u>> : u \in S}
  IN [s \in {y[1] : y \in yielded} |-> Cardinality({y \in yielded : y[1] = s})]

generate_usernames(name) ==
  LET parts == name_parts(name) IN
  IF parts = <<>> THEN Ok(<<>>)
  ELSE
    LET first    == lower(parts[1])
        last     == IF Len(parts) > 1 THEN lower(parts[Len(parts)]) ELSE <<>>
        initials == join([i \in 1..Len(parts) |-> lower(Char0(parts[i]))])
    IN
    IF last = <<>> THEN Raise("IndexError")   \* last[0] at line 58
    ELSE
      LET basic == { first, last, initials,
                     first \o last,
                     first \o <<46>> \o last,
                     first \o <<95>> \o last,
                     Char0(first) \o last,
                     first \o Char0(last),
                     first \o <<45>> \o last }
          mid == lower(parts[2])
          middle == IF Len(parts) > 2
                    THEN { first \o mid,
                           first \o Char0(mid) \o last,
                           Char0(first) \o Char0(mid) \o last }
                    ELSE {}
          candidates == AddSuffixed(basic \cup middle)
      IN Ok(sorted(Slugified(candidates)))

\* the class a-z0-9._-
EmailChars == (97..122) \cup (48..57) \cup {46, 95, 45}

\* pat.format(first=..., last=..., f=..., l=..., initials=...) for the
\* p-th entry of the list patterns
FormatPattern(p, first, last, f, l, initials) ==
  CASE p = 1 -> first \o <<46>> \o last
    [] p = 2 -> first \o last
    [] p = 3 -> f \o last
    [] p = 4 -> first \o l
    [] p = 5 -> first
    [] p = 6 -> last
    [] p = 7 -> initials
    [] p = 8 -> first \o <<95>> \o last

NumPatterns == 8

\* variant of generate_emails that indexes first[0] and last[0] without the
\* "if first" / "if last" guards of lines 102-103
generate_emails_Unguarded(name, domains) ==
  LET parts == name_parts(name) IN
  IF parts = <<>> THEN Ok(<<>>)
  ELSE
    LET first    == lower(parts[1])
        last     == IF Len(parts) > 1 THEN lower(parts[Len(parts)]) ELSE <<>>
        initials == join([i \in 1..Len(parts) |-> lower(Char0(parts[i]))])
        emailset == { re_sub_keep(EmailChars,
                          FormatPattern(p, first, last, Char0(first), Char0(last), initials))
                        \o <<64>> \o domains[d] :
                      d \in 1..Len(domains), p \in 1..NumPatterns }
    IN IF first = <<>> \/ last = <<>> THEN Raise("IndexError")
       ELSE Ok(sorted(Yield(emailset)))

generate_emails(name, domains) ==
  LET parts == name_parts(name) IN
  IF parts = <<>> THEN Ok(<<>>)
  ELSE
    LET first    == lower(parts[1])
        last     == IF Len(parts) > 1 THEN lower(parts[Len(parts)]) ELSE <<>>
        initials == join([i \in 1..Len(parts) |-> lower(Char0(parts[i]))])
        f        == IF first # <<>> THEN Char0(first) ELSE <<>>
        l        == IF last # <<>> THEN Char0(last) ELSE <<>>
        \* lines 100-105: for d in domains, for pat in patterns, emails.add
        emailset == { re_sub_keep(EmailChars, FormatPattern(p, first, last, f, l, initials))
                        \o <<64>> \o domains[d] :
                      d \in 1..Len(domains), p \in 1..NumPatterns }
    IN Ok(sorted(Yield(emailset)))

-----------------------------------------------------------------------------
(* Configuration *)

SITES == <<
  [name |-> "GitHub",         \* https://github.com/{}
   pattern |-> <<104, 116, 116, 112, 115, 58, 47, 47, 103, 105, 116, 104, 117, 98, 46, 99, 111, 109, 47, 123, 125>>],
  [name |-> "X",              \* https://x.com/{}
   pattern |-> <<104, 116, 116, 112, 115, 58, 47, 47, 120, 46, 99, 111, 109, 47, 123, 125>>],
  [name |-> "Instagram",      \* https://instagram.com/{}
   pattern |-> <<104, 116, 116, 112, 115, 58, 47, 47, 105, 110, 115, 116, 97, 103, 114, 97, 109, 46, 99, 111, 109, 47, 123, 125>>],
  [name |-> "Reddit",         \* https://reddit.com/user/{}
   pattern |-> <<104, 116, 116, 112, 115, 58, 47, 47, 114, 101, 100, 100, 105, 116, 46, 99, 111, 109, 47, 117, 115, 101, 114, 47, 123, 125>>],
  [name |-> "TikTok",         \* https://www.tiktok.com/@{}
   pattern |-> <<104, 116, 116, 112, 115, 58, 47, 47, 119, 119, 119, 46, 116, 105, 107, 116, 111, 107, 46, 99, 111, 109, 47, 64, 123, 125>>],
  [name |-> "Pinterest",      \* https://pinterest.com/{}/
   pattern |-> <<104, 116, 116, 112, 115, 58, 47, 47, 112, 105, 110, 116, 101, 114, 101, 115, 116, 46, 99, 111, 109, 47, 123, 125, 47>>],
  [name |-> "StackOverflow",  \* https://stackoverflow.com/users/{}
   pattern |-> <<104, 116, 116, 112, 115, 58, 47, 47, 115, 116, 97, 99, 107, 111, 118, 101, 114, 102, 108, 111, 119, 46, 99, 111, 109, 47, 117, 115, 101, 114, 115, 47, 123, 125>>]
>>

\* the default of domains_for_emails: gmail.com, yahoo.com, outlook.com
DefaultDomains == <<
  <<103, 109, 97, 105, 108, 46, 99, 111, 109>>,
  <<121, 97, 104, 111, 111, 46, 99, 111, 109>>,
  <<111, 117, 116, 108, 111, 111, 107, 46, 99, 111, 109>> >>

\* the default of max_results
DefaultCap == 50

\* pattern.format(u): the "{}" of the template replaced by u
Format(pattern, u) ==
  LET i == CHOOSE k \in 1..(Len(pattern) - 1) :
             /\ pattern[k] = 123 /\ pattern[k + 1] = 125
             /\ \A m \in 1..(k - 1) : ~(pattern[m] = 123 /\ pattern[m + 1] = 125)
  IN SubSeq(pattern, 1, i - 1) \o u \o SubSeq(pattern, i + 2, Len(pattern))

-----------------------------------------------------------------------------
(* Profile prober.  resp is what requests.get does: it returns a response  *)
(* with a status code (exc = None) or raises a RequestException (exc is    *)
(* its description).                                                       *)

HttpResponse(code) == [status |-> code, exc |-> None]
HttpFailure(desc)  == [status |-> 0, exc |-> Str(desc)]

\* variant of check_profile_exists that counts only status 200 as existence
check_profile_exists_Only200(url, resp) ==
  IF resp.exc # None THEN Ok([exists |-> None, info |-> resp.exc])
  ELSE IF resp.status = 200 THEN Ok([exists |-> True, info |-> Num(resp.status)])
  ELSE Ok([exists |-> False, info |-> Num(resp.status)])

check_profile_exists(url, resp) ==
  IF resp.exc # None THEN Ok([exists |-> None, info |-> resp.exc])
  ELSE IF resp.status = 200 THEN Ok([exists |-> True, info |-> Num(resp.status)])
  ELSE IF resp.status \in {301, 302} THEN Ok([exists |-> True, info |-> Num(resp.status)])
  ELSE Ok([exists |-> False, info |-> Num(resp.status)])

\* Python truth value of the configured key
Falsy(key) == key = None \/ key = Str("")

\* variant of hibp_check_email without the key test of lines 125-126
hibp_check_email_NoKeyTest(email, key, resp) ==
  IF resp.exc # None THEN [exc |-> None, value |-> None, sent |-> TRUE]
  ELSE IF resp.status = 200 THEN [exc |-> None, value |-> True, sent |-> TRUE]
  ELSE IF resp.status = 404 THEN [exc |-> None, value |-> False, sent |-> TRUE]
  ELSE [exc |-> None, value |-> None, sent |-> TRUE]

\* sent: whether the call issued its GET request
hibp_check_email(email, key, resp) ==
  IF Falsy(key) THEN [exc |-> None, value |-> None, sent |-> FALSE]
  ELSE IF resp.exc # None THEN [exc |-> None, value |-> None, sent |-> TRUE]
  ELSE IF resp.status = 200 THEN [exc |-> None, value |-> True, sent |-> TRUE]
  ELSE IF resp.status = 404 THEN [exc |-> None, value |-> False, sent |-> TRUE]
  ELSE [exc |-> None, value |-> None, sent |-> TRUE]

-----------------------------------------------------------------------------
(* Driver: find_public_accounts *)

\* the response of the network to the next request
NextResp == net[(requests % Len(net)) + 1]

NoCall == [fn |-> "none", status |-> 0, exc |-> None]
CallOf(f, resp) == [fn |-> f, status |-> resp.status, exc |-> resp.exc]

genVars  == <<uRes, eRes>>
argVars  == <<full_name, domains_arg, max_results, HIBP_API_KEY, net>>
histVars == <<requests, profileCalls, lastResp, hibpLog, hibpRequests, sleepsSince, capped>>

\* lines 145-154
Begin ==
  /\ pc = "start"
  /\ LET r == generate_usernames(full_name)
         e == generate_emails(full_name,
                 IF domains_arg.is_none THEN DefaultDomains ELSE domains_arg.value) IN
     IF r.exc # None \/ e.exc # None
     THEN /\ pc' = "raised"
          /\ UNCHANGED <<usernames, emails, found, checked, ui, si, ei>>
     ELSE /\ usernames' = r.value
          /\ emails' = e.value
          /\ found' = [usernames |-> <<>>, emails |-> <<>>]
          /\ checked' = 0
          /\ ui' = 1 /\ si' = 1 /\ ei' = 1
          /\ pc' = "user_loop"
  /\ UNCHANGED <<argVars, genVars, histVars, exists, info, hibp>>

\* lines 157-160: next (u, site_name) of the nested loops, one probe
UserProbe ==
  /\ pc = "user_loop" /\ ui <= Len(usernames)
  /\ LET u   == usernames[ui]
         url == Format(SITES[si].pattern, u)
         r   == check_profile_exists(url, NextResp)
     IN /\ profileCalls' = profileCalls (+) SetToBag({<<SITES[si].name, u, url>>})
        /\ lastResp' = CallOf("check_profile_exists", NextResp)
        /\ requests' = requests + 1
        /\ sleepsSince' = 0
        /\ IF r.exc # None
           THEN pc' = "raised" /\ UNCHANGED <<exists, info>>
           ELSE pc' = "user_sleep" /\ exists' = r.value.exists /\ info' = r.value.info
  /\ UNCHANGED <<argVars, genVars, usernames, emails, found, checked, ui, si, ei,
                 hibp, hibpLog, hibpRequests, capped>>

\* variant of UserSleep that sleeps only after a probe that got an answer
UserSleep_OnlyAfterAnswer ==
  /\ pc = "user_sleep"
  /\ sleepsSince' = IF exists = None THEN sleepsSince ELSE sleepsSince + 1
  /\ pc' = "user_record"
  /\ UNCHANGED <<argVars, genVars, usernames, emails, found, checked, ui, si, ei,
                 exists, info, hibp, requests, profileCalls, lastResp, hibpLog,
                 hibpRequests, capped>>

\* line 161
UserSleep ==
  /\ pc = "user_sleep"
  /\ sleepsSince' = sleepsSince + 1
  /\ pc' = "user_record"
  /\ UNCHANGED <<argVars, genVars, usernames, emails, found, checked, ui, si, ei,
                 exists, info, hibp, requests, profileCalls, lastResp, hibpLog,
                 hibpRequests, capped>>

\* lines 162-167, and the step of the loops
UserRecord ==
  /\ pc = "user_record"
  /\ checked' = checked + 1
  /\ found' = IF exists = True
              THEN [found EXCEPT !.usernames = Append(@,
                      [site |-> SITES[si].name, username |-> usernames[ui],
                       url |-> Format(SITES[si].pattern, usernames[ui]), status |-> info])]
              ELSE found
  /\ IF checked' >= max_results
     THEN pc' = "returned" /\ capped' = TRUE /\ UNCHANGED <<ui, si>>
     ELSE /\ pc' = "user_loop" /\ capped' = capped
          /\ IF si < Len(SITES) THEN si' = si + 1 /\ ui' = ui
                                ELSE si' = 1 /\ ui' = ui + 1
  /\ UNCHANGED <<argVars, genVars, usernames, emails, ei, exists, info, hibp,
                 requests, profileCalls, lastResp, hibpLog, hibpRequests, sleepsSince>>

\* line 157 exhausted: fall through to line 170
UserLoopEnd ==
  /\ pc = "user_loop" /\ ui > Len(usernames)
  /\ pc' = "email_loop" /\ ei' = 1
  /\ UNCHANGED <<argVars, genVars, histVars, usernames, emails, found, checked,
                 ui, si, exists, info, hibp>>

\* lines 170-171
EmailProbe ==
  /\ pc = "email_loop" /\ ei <= Len(emails)
  /\ LET r == hibp_check_email(emails[ei], HIBP_API_KEY, NextResp)
     IN /\ hibpLog' = Append(hibpLog, [email |-> emails[ei], result |-> r.value,
                                       sent |-> r.sent,
                                       status |-> NextResp.status, exc |-> NextResp.exc])
        /\ lastResp' = CallOf("hibp_check_email", NextResp)
        /\ requests' = IF r.sent THEN requests + 1 ELSE requests
        /\ hibpRequests' = IF r.sent THEN hibpRequests + 1 ELSE hibpRequests
        /\ sleepsSince' = 0
        /\ IF r.exc # None
           THEN pc' = "raised" /\ UNCHANGED hibp
           ELSE pc' = "email_sleep" /\ hibp' = r.value
  /\ UNCHANGED <<argVars, genVars, usernames, emails, found, checked, ui, si, ei,
                 exists, info, profileCalls, capped>>

\* line 172
EmailSleep ==
  /\ pc = "email_sleep"
  /\ sleepsSince' = sleepsSince + 1
  /\ pc' = "email_record"
  /\ UNCHANGED <<argVars, genVars, usernames, emails, found, checked, ui, si, ei,
                 exists, info, hibp, requests, profileCalls, lastResp, hibpLog,
                 hibpRequests, capped>>

\* variant of EmailRecord that records every result other than False
EmailRecord_NotFalse ==
  /\ pc = "email_record"
  /\ found' = IF hibp # False
              THEN [found EXCEPT !.emails = Append(@, [email |-> emails[ei], pwned |-> TRUE])]
              ELSE found
  /\ ei' = ei + 1
  /\ pc' = "email_loop"
  /\ UNCHANGED <<argVars, genVars, histVars, usernames, emails, checked, ui, si,
                 exists, info, hibp>>

\* lines 173-177, and the step of the loop
EmailRecord ==
  /\ pc = "email_record"
  /\ found' = IF hibp = True
              THEN [found EXCEPT !.emails = Append(@, [email |-> emails[ei], pwned |-> TRUE])]
              ELSE found
  /\ ei' = ei + 1
  /\ pc' = "email_loop"
  /\ UNCHANGED <<argVars, genVars, histVars, usernames, emails, checked, ui, si,
                 exists, info, hibp>>

\* line 179
Return ==
  /\ pc = "email_loop" /\ ei > Len(emails)
  /\ pc' = "returned"
  /\ UNCHANGED <<argVars, genVars, histVars, usernames, emails, found, checked,
                 ui, si, ei, exists, info, hibp>>

-----------------------------------------------------------------------------
(* Generator calls on their own (generator specification) *)

ExampleCom == <<101, 120, 97, 109, 112, 108, 101, 46, 99, 111, 109>>  \* "example.com"
B_c       == <<98, 46, 99>>                                \* "b.c"
A_b       == <<97, 46, 98>>                                \* "a.b"

\* the lists of domains the generator is called with
GenDomains == { <<>>, <<ExampleCom>>, <<B_c, A_b, B_c>> }

\* a call of generate_usernames
GenUsernames ==
  /\ pc = "gen_start"
  /\ uRes' = generate_usernames(full_name)
  /\ pc' = "gen_usernames_done"
  /\ UNCHANGED <<argVars, histVars, eRes, usernames, emails, found, checked,
                 ui, si, ei, exists, info, hibp>>

\* a call of generate_emails with some list of domains
GenEmails ==
  /\ pc = "gen_start"
  /\ \E d \in GenDomains :
        /\ domains_arg' = [is_none |-> FALSE, value |-> d]
        /\ eRes' = generate_emails(full_name, d)
  /\ pc' = "gen_emails_done"
  /\ UNCHANGED <<full_name, max_results, HIBP_API_KEY, net, histVars, uRes,
                 usernames, emails, found, checked, ui, si, ei, exists, info, hibp>>

-----------------------------------------------------------------------------
(* Inputs and specifications *)

MaxLen   == 5    \* longest generated name of the generator specification
MaxCap   == 2    \* small values of max_results: 0..MaxCap
MaxSched == 2    \* longest period of the network's schedule of responses
LargeCap == 140  \* a max_results that a two-token name reaches at its last probe

\* space, 'a', 'B', '-', '!', '1'
Alphabet == {32, 97, 66, 45, 33, 49}

JaneDoe   == <<74, 97, 110, 101, 32, 68, 111, 101>>        \* "Jane Doe"
Madonna   == <<77, 97, 100, 111, 110, 110, 97>>            \* "Madonna"
AnnBLee   == <<65, 110, 110, 32, 66, 46, 32, 76, 101, 101>> \* "Ann B. Lee"
JaneNbspDoe == <<74, 97, 110, 101, 160, 68, 111, 101>>   \* "Jane\u00a0Doe"
KimKent   == <<8490, 105, 109, 32, 8490, 101, 110, 116>>   \* "\u212aim \u212aent"
IDotSigma == <<304, 32, 927, 916, 927, 931, 32, 201>>      \* "\u0130 \u039f\u0394\u039f\u03a3 \u00c9"
Al        == <<65, 108>>                                   \* "Al"
A_a       == <<65, 32, 97>>                                \* "A a"

GenNames == UNION {[1..k -> Alphabet] : k \in 0..MaxLen} \cup {JaneDoe, Madonna, AnnBLee, JaneNbspDoe, KimKent, IDotSigma}

DriverNames == { <<>>, Al, A_a }

DriverDomains == { [is_none |-> TRUE, value |-> <<>>],
                   [is_none |-> FALSE, value |-> <<ExampleCom>>] }

Caps == (0..MaxCap) \cup {DefaultCap, LargeCap, LargeCap + 1}

Keys == {None, Str(""), Str("None")}

Responses == {HttpResponse(c) : c \in {200, 301, 302, 404}}
               \cup {HttpFailure("ConnectionError"), HttpFailure("None")}

Schedules == UNION {[1..k -> Responses] : k \in 1..MaxSched}

Idle ==
  /\ usernames = <<>> /\ emails = <<>>
  /\ found = [usernames |-> <<>>, emails |-> <<>>]
  /\ checked = 0 /\ ui = 1 /\ si = 1 /\ ei = 1
  /\ exists = None /\ info = None /\ hibp = None
  /\ uRes = Ok(<<>>) /\ eRes = Ok(<<>>)
  /\ requests = 0 /\ profileCalls = EmptyBag /\ lastResp = NoCall
  /\ hibpLog = <<>> /\ hibpRequests = 0 /\ sleepsSince = 0 /\ capped = FALSE

Init ==
  /\ full_name \in DriverNames
  /\ domains_arg \in DriverDomains
  /\ max_results \in Caps
  /\ HIBP_API_KEY \in Keys
  /\ net \in Schedules
  /\ pc = "start"
  /\ Idle

Next ==
  \/ Begin
  \/ UserProbe
  \/ UserSleep
  \/ UserRecord
  \/ UserLoopEnd
  \/ EmailProbe
  \/ EmailSleep
  \/ EmailRecord
  \/ Return

Spec == Init /\ [][Next]_vars

InitGen ==
  /\ full_name \in GenNames
  /\ domains_arg = [is_none |-> TRUE, value |-> <<>>]
  /\ max_results = DefaultCap
  /\ HIBP_API_KEY = None
  /\ net = <<HttpResponse(404)>>
  /\ pc = "gen_start"
  /\ Idle

NextGen ==
  \/ GenUsernames
  \/ GenEmails

SpecGen == InitGen /\ [][NextGen]_vars

-----------------------------------------------------------------------------
(* Properties of the generator (specification SpecGen) *)

Tokens == name_parts(full_name)
First  == lower(Tokens[1])
Last   == lower(Tokens[Len(Tokens)])
Initials == join([i \in 1..Len(Tokens) |-> lower(<<Tokens[i][1]>>)])

\* lowercase, then only [a-z0-9]
Normalized(s) == SelectSeq(lower(s), LAMBDA c : c \in 97..122 \/ c \in 48..57)
\* only [a-z0-9._-]
EmailStripped(s) == SelectSeq(s, LAMBDA c : c \in 97..122 \/ c \in 48..57 \/ c \in {46, 95, 45})

Ascending(l)    == \A i \in 1..(Len(l) - 1) : ~StrLess(l[i + 1], l[i])
NoDuplicates(l) == \A i, j \in 1..Len(l) : i # j => l[i] # l[j]

UsernamesReturned == pc = "gen_usernames_done"
EmailsReturned    == pc = "gen_emails_done"

\* C2: for every name with at least 2 tokens, generate_usernames returns a
\* non-empty list of strings over [a-z0-9], in ascending order, in which no
\* string occurs twice.
C2_UsernamesSortedUnique ==
  (UsernamesReturned /\ Len(Tokens) >= 2) =>
     /\ uRes.exc = None
     /\ uRes.value # <<>>
     /\ \A i \in 1..Len(uRes.value) : \A k \in 1..Len(uRes.value[i]) :
           uRes.value[i][k] \in (97..122) \cup (48..57)
     /\ Ascending(uRes.value)
     /\ NoDuplicates(uRes.value)

\* C3: for every name with exactly one token, generate_usernames does not
\* raise and returns a list of normalized candidates that holds first (what
\* first+last reduces to when last is empty).
C3_SingleTokenNoRaise ==
  (UsernamesReturned /\ Len(Tokens) = 1) =>
     /\ uRes.exc = None
     /\ Normalized(First) \in Range(uRes.value)
     /\ \A i \in 1..Len(uRes.value) : uRes.value[i] = Normalized(uRes.value[i])

\* the first letter of a part, nothing for a missing part
Initial(s) == IF s = <<>> THEN <<>> ELSE <<s[1]>>

\* the local parts of the 8 patterns, a missing part being the empty string
Locals ==
  LET first == First
      last  == IF Len(Tokens) > 1 THEN Last ELSE <<>>
      f     == Initial(first)
      l     == Initial(last)
  IN { first \o <<46>> \o last, first \o last, f \o last, first \o l,
       first, last, Initials, first \o <<95>> \o last }

ExpectedEmails ==
  { EmailStripped(local) \o <<64>> \o domains_arg.value[d] :
      local \in Locals, d \in 1..Len(domains_arg.value) }

\* C8: for every name with at least one token and every list of domains,
\* generate_emails raises nothing and returns, in ascending order and without
\* duplicates, exactly the strings local@d for the 8 patterns and the given
\* domains; for "Jane Doe" and ["example.com"] these include
\* jane.doe@example.com, janedoe@example.com, jdoe@example.com and
\* jane@example.com.
C8_EmailsExact ==
  (EmailsReturned /\ Len(Tokens) >= 1) =>
     /\ eRes.exc = None
     /\ Ascending(eRes.value)
     /\ NoDuplicates(eRes.value)
     /\ Range(eRes.value) = ExpectedEmails
     /\ (full_name = JaneDoe /\ domains_arg.value = <<ExampleCom>>) =>
          { <<106, 97, 110, 101, 46, 100, 111, 101>> \o <<64>> \o ExampleCom,
            <<106, 97, 110, 101, 100, 111, 101>> \o <<64>> \o ExampleCom,
            <<106, 100, 111, 101>> \o <<64>> \o ExampleCom,
            <<106, 97, 110, 101>> \o <<64>> \o ExampleCom } \subseteq Range(eRes.value)

\* a single-token name whose emails were generated for two distinct domains,
\* one of them given twice
C8_Witness ==
  /\ EmailsReturned /\ Len(Tokens) = 1
  /\ domains_arg.value = <<B_c, A_b, B_c>>
  /\ eRes.exc = None
  /\ <<64>> \o A_b \in Range(eRes.value)
  /\ Len(eRes.value) > 2

\* the seed candidates named for names of two or more tokens
SeedCandidates ==
  { First, Last, Initials, First \o Last,
    Initial(First) \o Last, First \o Initial(Last) }

-----------------------------------------------------------------------------
(* Properties of the driver and the probers (specification Spec) *)

ProfileProbes == BagCardinality(profileCalls)

\* C1: the number of username probes of a run never exceeds max_results; a
\* run that returns at the cap does so with the request count equal to
\* max_results and without any hibp_check_email call.
C1_CapNeverExceeded ==
  /\ ProfileProbes <= max_results
  /\ capped => (checked = max_results /\ hibpLog = <<>>)

\* C4: no (site, username) pair, that is no URL, is probed twice in a run,
\* and the recorded username hits refer to distinct (site, username) pairs.
C4_EachPairProbedOnce ==
  /\ \A c \in BagToSet(profileCalls) : CopiesIn(c, profileCalls) = 1
  /\ \A i, j \in 1..Len(found.usernames) :
        i # j => <<found.usernames[i].site, found.usernames[i].username>>
                   # <<found.usernames[j].site, found.usernames[j].username>>

\* C5: check_profile_exists returns (true, status) for status 200, 301 and
\* 302, (false, status) for every other status and (unknown, description)
\* for a transport failure, which it never raises to the driver.
C5_ProfileClassification ==
  lastResp.fn = "check_profile_exists" =>
     /\ pc # "raised"
     /\ IF lastResp.exc # None
        THEN exists = None /\ info = lastResp.exc
        ELSE /\ info = Num(lastResp.status)
             /\ exists = (IF lastResp.status \in {200, 301, 302} THEN True ELSE False)

\* a redirect was recorded as a hit and the last probe failed in transport
C5_Witness ==
  /\ pc = "user_sleep"
  /\ lastResp.fn = "check_profile_exists" /\ lastResp.exc # None
  /\ exists = None
  /\ \E i \in 1..Len(found.usernames) : found.usernames[i].status = Num(302)

HibpExpected(e) ==
  IF e.exc # None THEN None
  ELSE IF e.status = 200 THEN True
  ELSE IF e.status = 404 THEN False
  ELSE None

\* C6: without a configured key hibp_check_email returns unknown and sends
\* nothing, so the run sends no breach-lookup request and records no email
\* hit; with a key, 200 gives true, 404 false, anything else or a transport
\* failure unknown, and nothing is raised.
C6_HibpKeyGate ==
  /\ Falsy(HIBP_API_KEY) =>
       /\ hibpRequests = 0
       /\ found.emails = <<>>
       /\ \A i \in 1..Len(hibpLog) : hibpLog[i].result = None /\ ~hibpLog[i].sent
  /\ ~Falsy(HIBP_API_KEY) =>
       /\ hibpRequests = Len(hibpLog)
       /\ \A i \in 1..Len(hibpLog) :
            hibpLog[i].sent /\ hibpLog[i].result = HibpExpected(hibpLog[i])
  /\ hibpLog # <<>> => pc # "raised"

\* a run without a key that called hibp_check_email for every email and returned
C6_Witness ==
  /\ pc = "returned" /\ HIBP_API_KEY = None
  /\ hibpLog # <<>> /\ Len(hibpLog) = Len(emails)
  /\ hibpRequests = 0 /\ found.emails = <<>>

BreachedOf(log) ==
  LET hits == SelectSeq(log, LAMBDA e : e.result = True)
  IN [i \in 1..Len(hits) |-> [email |-> hits[i].email, pwned |-> TRUE]]

\* C7: the email candidates are probed one by one in the order of the sorted
\* list and only after all username probes; a run whose username phase ended
\* below the cap probes each of them exactly once and returns as email hits
\* exactly those whose probe returned true, in probe order.
C7_EmailPhase ==
  /\ hibpLog # <<>> => (~capped /\ ProfileProbes = Len(usernames) * Len(SITES))
  /\ Len(hibpLog) <= Len(emails)
  /\ \A i \in 1..Len(hibpLog) : hibpLog[i].email = emails[i]
  /\ Ascending(emails) /\ NoDuplicates(emails)
  /\ pc \in {"email_loop", "returned"} => found.emails = BreachedOf(hibpLog)
  /\ (pc = "returned" /\ ~capped) => Len(hibpLog) = Len(emails)

\* a full run that returned some, but not all, of its email candidates as hits,
\* the last probe of the run being no hit
C7_Witness ==
  /\ pc = "returned" /\ ~capped
  /\ found.emails # <<>> /\ Len(found.emails) < Len(emails)
  /\ hibp # True
  /\ found.usernames # <<>>

\* C10: every prober call is followed by exactly one sleep before the next
\* prober call or the return, whatever its outcome.
C10_SleepAfterEveryProbe ==
  /\ (pc \in {"user_loop", "email_loop", "returned"} /\ lastResp.fn # "none")
        => sleepsSince = 1
  /\ pc \in {"user_sleep", "email_sleep"} => sleepsSince = 0
  /\ pc \in {"user_record", "email_record"} => sleepsSince = 1

\* a run that returned at the cap right after a probe with unknown outcome
C10_Witness ==
  /\ pc = "returned" /\ capped
  /\ exists = None /\ lastResp.exc # None
  /\ sleepsSince = 1 /\ ProfileProbes > 1

====
